---- MODULE Spec2Model ----
(***************************************************************************)
(* A model of the Shogi board of boards/board.py (ShogiBoard.perform_move, *)
(* ShogiBoard.perform_drop) and of the legality utilities of               *)
(* boards/util.py (InvalidDroppingUtils, MovementUtils, CheckmateUtils),   *)
(* with the pieces of pieces/base.py and the errors of errors/gameplay.py. *)
(*                                                                         *)
(* Every operation is modelled with the outcome Python gives it: a value,  *)
(* a GameplayException subclass, or a built-in exception (TypeError for a  *)
(* call whose arguments do not fit the callee's signature, IndexError for  *)
(* a string index out of range).  Built-in exceptions are not              *)
(* GameplayExceptions, so the handlers of perform_move and perform_drop    *)
(* do not catch them.                                                      *)
(***************************************************************************)
EXTENDS Integers, Sequences, FiniteSets, TLC

VARIABLES board, captured_pieces, player, is_promoted,
          black, next_action, winner, lastCall, probes, stack

vars == <<board, captured_pieces, player, is_promoted,
          black, next_action, winner, lastCall, probes, stack>>

\* The state of a ShogiBoard and of its pieces (everything but the call record).
gameState == <<board, captured_pieces, player, is_promoted, black, next_action, winner>>

-----------------------------------------------------------------------------
(* Bounds and program constants *)

\* Board dimension ('dimension' of the board profile).
Dim == 4

\* How many direct calls of a state-changing utility (check_for_uchifuzume,
\* promote, demote) a behaviour of SpecQuery may make.
MaxProbes == 2

\* len(full_arabic_nums) = len(full_kanji_nums): the strings format_coordinates indexes.
NumLen == 9

\* An empty cell of the grid (Python's None in board[x][y]).
None == -1

\* The upper rank of the first mover's promotion zone: 0 <= x <= 2.
BlackZoneMax == 2

\* The second mover's promotion zone: dim - 2 < x < dim.
WhiteZoneOffset == 2

-----------------------------------------------------------------------------
(* Players: const/gameplay.py *)

Player == {"Junior", "Senior"}

\* No player: the value of winner before the game ends.
NoPlayer == "None"

\* ~player on the two-valued Flag.
Opp(p) == IF p = "Junior" THEN "Senior" ELSE "Junior"

-----------------------------------------------------------------------------
(* The piece catalog and the starting layout.  The profiles (JSON) and the  *)
(* piece classes other than PawnPiece are not among the source files: the   *)
(* geometry below is the standard one, declared from the first mover's      *)
(* point of view, whose pieces advance towards rank 0.                      *)

MovementBaseline(x, y, limit, bypass) ==
    [x_per_step |-> x, y_per_step |-> y, step_limit |-> limit, bypass_pieces |-> bypass]

KingMoves ==
    << MovementBaseline(-1, 0, TRUE, FALSE), MovementBaseline(-1, -1, TRUE, FALSE),
       MovementBaseline(-1, 1, TRUE, FALSE), MovementBaseline(0, -1, TRUE, FALSE),
       MovementBaseline(0, 1, TRUE, FALSE),  MovementBaseline(1, 0, TRUE, FALSE),
       MovementBaseline(1, -1, TRUE, FALSE), MovementBaseline(1, 1, TRUE, FALSE) >>

GoldMoves ==
    << MovementBaseline(-1, 0, TRUE, FALSE), MovementBaseline(-1, -1, TRUE, FALSE),
       MovementBaseline(-1, 1, TRUE, FALSE), MovementBaseline(0, -1, TRUE, FALSE),
       MovementBaseline(0, 1, TRUE, FALSE),  MovementBaseline(1, 0, TRUE, FALSE) >>

RookMoves ==
    << MovementBaseline(-1, 0, FALSE, FALSE), MovementBaseline(1, 0, FALSE, FALSE),
       MovementBaseline(0, -1, FALSE, FALSE), MovementBaseline(0, 1, FALSE, FALSE) >>

BishopMoves ==
    << MovementBaseline(-1, -1, FALSE, FALSE), MovementBaseline(-1, 1, FALSE, FALSE),
       MovementBaseline(1, -1, FALSE, FALSE),  MovementBaseline(1, 1, FALSE, FALSE) >>

PawnMoves == << MovementBaseline(-1, 0, TRUE, FALSE) >>

KnightMoves ==
    << MovementBaseline(-2, -1, TRUE, TRUE), MovementBaseline(-2, 1, TRUE, TRUE) >>

MovesOf(t) ==
    CASE t = "KingPiece"   -> KingMoves
      [] t = "GoldPiece"   -> GoldMoves
      [] t = "RookPiece"   -> RookMoves
      [] t = "BishopPiece" -> BishopMoves
      [] t = "PawnPiece"   -> PawnMoves
      [] t = "KnightPiece" -> KnightMoves

PromotedMovesOf(t) ==
    CASE t = "KingPiece"   -> << >>
      [] t = "GoldPiece"   -> << >>
      [] t = "RookPiece"   -> RookMoves \o
            << MovementBaseline(-1, -1, TRUE, FALSE), MovementBaseline(-1, 1, TRUE, FALSE),
               MovementBaseline(1, -1, TRUE, FALSE),  MovementBaseline(1, 1, TRUE, FALSE) >>
      [] t = "BishopPiece" -> BishopMoves \o
            << MovementBaseline(-1, 0, TRUE, FALSE), MovementBaseline(1, 0, TRUE, FALSE),
               MovementBaseline(0, -1, TRUE, FALSE), MovementBaseline(0, 1, TRUE, FALSE) >>
      [] t = "PawnPiece"   -> GoldMoves
      [] t = "KnightPiece" -> GoldMoves

PromotableType(t) == t \notin {"KingPiece", "GoldPiece"}

\* The starting units, in the order of the profile: ids are given in this order, from 0.
StartingUnits ==
    << [coor_x |-> Dim - 1, coor_y |-> 1,       unit_type |-> "KingPiece",   side |-> "black"],
       [coor_x |-> Dim - 1, coor_y |-> 0,       unit_type |-> "RookPiece",   side |-> "black"],
       [coor_x |-> Dim - 2, coor_y |-> 1,       unit_type |-> "PawnPiece",   side |-> "black"],
       [coor_x |-> Dim - 1, coor_y |-> 2,       unit_type |-> "GoldPiece",   side |-> "black"],
       [coor_x |-> 0,       coor_y |-> Dim - 2, unit_type |-> "KingPiece",   side |-> "white"],
       [coor_x |-> 0,       coor_y |-> Dim - 1, unit_type |-> "BishopPiece", side |-> "white"],
       [coor_x |-> 1,       coor_y |-> Dim - 2, unit_type |-> "PawnPiece",   side |-> "white"],
       [coor_x |-> 0,       coor_y |-> 0,       unit_type |-> "KnightPiece", side |-> "white"] >>

PieceIds == 0 .. (Len(StartingUnits) - 1)

TypeOf(id) == StartingUnits[id + 1].unit_type

Cells == (0 .. (Dim - 1)) \X (0 .. (Dim - 1))

\* Coordinates a caller may pass: one below the board, the board, one above it, and
\* one that the coordinate strings of util/kif.py cannot format.
Coords == {-1} \cup (0 .. Dim) \cup {NumLen}

Positions == Coords \X Coords

InBounds(pos) == 0 <= pos[1] /\ pos[1] < Dim /\ 0 <= pos[2] /\ pos[2] < Dim

-----------------------------------------------------------------------------
(* Pieces: pieces/base.py *)

promotable(id) == PromotableType(TypeOf(id))

moves(id) == MovesOf(TypeOf(id))

promoted_moves(id) == PromotedMovesOf(TypeOf(id))

\* moves_in_use follows the promotion flag (set together in __init__, promote, demote).
MovesInUse(prom, id) == IF prom[id] THEN promoted_moves(id) ELSE moves(id)

moves_in_use(id) == MovesInUse(is_promoted, id)

\* BasePiece.promote on the promotion flags prom.
promote(prom, id) ==
    IF promotable(id)
    THEN (IF prom[id] THEN prom ELSE [prom EXCEPT ![id] = TRUE])
    ELSE prom

\* BasePiece.demote on the promotion flags prom.
demote(prom, id) == IF prom[id] THEN [prom EXCEPT ![id] = FALSE] ELSE prom

-----------------------------------------------------------------------------
(* Outcomes of a call *)

Ret(v) == [kind |-> "return", err |-> "", val |-> v]

Raise(e) == [kind |-> "raise", err |-> e, val |-> << >>]

\* raise InvalidDropError(piece_type, coordinate, violated_rule)
InvalidDropError(violated_rule) ==
    [kind |-> "raise", err |-> "InvalidDropError", val |-> << violated_rule >>]

\* The subclasses of GameplayException: what `except GameplayException` catches.
GameplayException ==
    {"GameNotInitiatedError", "GameEndedError", "IncorrectPlayerError", "OutOfBoundError",
     "EmptyCellError", "PieceNotOwnedError", "NotPromotableError", "NotInPromotionZoneError",
     "NoPathingFoundError", "BlockedPathingError", "OccupiedCellError",
     "DroppingPieceNotExistedError", "InvalidDropError",
     "SelfExposureMoveError", "SelfExposureDropError"}

\* format_coordinates indexes two strings of NumLen characters with the coordinates:
\* Python accepts the indices -NumLen .. NumLen-1 and raises IndexError for the others.
FormatOk(pos) ==
    /\ -NumLen <= pos[1] /\ pos[1] < NumLen
    /\ -NumLen <= pos[2] /\ pos[2] < NumLen

\* raise OutOfBoundError(coordinate): the constructor formats the coordinate first.
OutOfBoundError(pos) ==
    IF FormatOk(pos) THEN Raise("OutOfBoundError") ELSE Raise("IndexError")

\* A Python call binds when its keyword arguments are exactly the callee's parameters
\* (none of the callees below has a default value or **kwargs); it raises TypeError
\* otherwise, before the callee's body runs.
Binds(keywords, parameters) == keywords = parameters

\* def is_valid_pathing(cls, piece, board_black, initial_position, final_position)
IsValidPathingParams == {"piece", "board_black", "initial_position", "final_position"}

\* def check_for_stuck_piece(cls, piece, board_black, board_dim, position)
CheckForStuckPieceParams == {"piece", "board_black", "board_dim", "position"}

\* def check_for_nifu(cls, piece, board_dim, board_matrix, position)
CheckForNifuParams == {"piece", "board_dim", "board_matrix", "position"}

\* def check_for_uchifuzume(cls, piece, board_matrix, position)
CheckForUchifuzumeParams == {"piece", "board_matrix", "position"}

\* def is_valid_drop(cls, piece, board_black, board_dim, board_matrix, drop_position)
IsValidDropParams == {"piece", "board_black", "board_dim", "board_matrix", "drop_position"}

\* def is_checkmate(cls, board_black, board_dim, board_matrix,
\*                  checked_side_captured_pieces, checking_player)
IsCheckmateParams ==
    {"board_black", "board_dim", "board_matrix", "checked_side_captured_pieces",
     "checking_player"}

-----------------------------------------------------------------------------
(* MovementUtils.is_valid_pathing *)

Abs(n) == IF n < 0 THEN -n ELSE n

Sgn(n) == IF n < 0 THEN -1 ELSE IF n > 0 THEN 1 ELSE 0

\* pov_coefficient = 1 if piece.player == board_black else -1
pov_coefficient(pl, blk, id) == IF pl[id] = blk THEN 1 ELSE -1

\* A step count: the quotient n/d (d > 0); isfloat tells a Python float from an int.
Fraction(n, d) ==
    IF n % d = 0 THEN [n |-> n \div d, d |-> 1, isfloat |-> TRUE]
                 ELSE [n |-> n, d |-> d, isfloat |-> TRUE]

\* delta / divisor: true division gives a float, whole or not.
Quotient(delta, divisor) == Fraction(delta * Sgn(divisor), Abs(divisor))

\* An int step count, as a caller passes it.
IntStep(k) == [n |-> k, d |-> 1, isfloat |-> FALSE]

\* Python's == on two step counts: by value (1.0 == 1).
SameStep(s, t) == s.n * t.d = t.n * s.d

\* steps_required_flattened = steps_required[0] or steps_required[1], for a baseline
\* that passed the checks before it.  steps_required[0] is falsy when it is None
\* (x_per_step = 0) or 0.0 (no displacement on x); the result is None exactly when
\* steps_required[1] is then None (y_per_step = 0).
FlattenedIsNone(b, dx) == ~(b.x_per_step # 0 /\ dx # 0) /\ b.y_per_step = 0

steps_required_flattened(b, pov, dx, dy) ==
    IF b.x_per_step # 0 /\ dx # 0
    THEN Quotient(dx, b.x_per_step * pov)
    ELSE Quotient(dy, b.y_per_step * pov)

\* The last two checks of the loop body, on the flattened step count s.
StepAccepted(b, s) == ~(s.n < 0) /\ ~(s.n > s.d /\ b.step_limit)

\* The loop body of is_valid_pathing: TRUE when the baseline passes every `continue`.
BaselineAccepted(b, pov, dx, dy) ==
    /\ ~(dx # 0 /\ b.x_per_step = 0)
    /\ ~(dy # 0 /\ b.y_per_step = 0)
    \* both quotients defined and different: dx/(x*pov) # dy/(y*pov)
    /\ ~(b.x_per_step # 0 /\ b.y_per_step # 0 /\ dx * b.y_per_step # dy * b.x_per_step)
    /\ ~FlattenedIsNone(b, dx)
    /\ StepAccepted(b, steps_required_flattened(b, pov, dx, dy))

\* No pathing: Python's None.
NoPathing == << >>

\* The least index of a non-empty set of indices.
First(indices) == CHOOSE j \in indices : \A k \in indices : j <= k

\* The value returned for the accepted baselines ok of the list ms: the first one.
PathingAmong(ms, pov, dx, dy, ok) ==
    IF ok = {} THEN NoPathing
    ELSE << ms[First(ok)], steps_required_flattened(ms[First(ok)], pov, dx, dy) >>

\* The first accepted baseline of the list ms with its step count, or None.
FirstPathing(ms, pov, dx, dy) ==
    PathingAmong(ms, pov, dx, dy,
                 {i \in 1 .. Len(ms) : BaselineAccepted(ms[i], pov, dx, dy)})

is_valid_pathing(pl, prom, blk, id, initial_position, final_position) ==
    FirstPathing(MovesInUse(prom, id), pov_coefficient(pl, blk, id),
                 final_position[1] - initial_position[1],
                 final_position[2] - initial_position[2])

-----------------------------------------------------------------------------
(* InvalidDroppingUtils.check_for_stuck_piece, check_for_nifu *)

\* The baseline b, shifted one step from the position, leaves the board by the test
\* of check_for_stuck_piece: neither coordinate is in range.
RunsOff(b, pov, position) ==
    ~(\/ (0 <= position[1] + b.x_per_step * pov /\ position[1] + b.x_per_step * pov < Dim)
      \/ (0 <= position[2] + b.y_per_step * pov /\ position[2] + b.y_per_step * pov < Dim))

check_for_stuck_piece(pl, prom, blk, id, position) ==
    \A i \in 1 .. Len(MovesInUse(prom, id)) :
        RunsOff(MovesInUse(prom, id)[i], pov_coefficient(pl, blk, id), position)

check_for_nifu(b, pl, prom, id, position) ==
    \E x \in 0 .. (Dim - 1) :
        /\ b[<<x, position[2]>>] # None
        /\ TypeOf(b[<<x, position[2]>>]) = "PawnPiece"
        /\ ~prom[id]
        /\ pl[id] = pl[b[<<x, position[2]>>]]

-----------------------------------------------------------------------------
(* MovementUtils.is_blocked, is_valid_move *)

\* The end of `step` steps of `baseline` from `position` under the point of view pov.
\* The product is whole for every step count is_valid_pathing returns and for every
\* int a caller passes.
ShiftedPosition(position, baseline, step, pov) ==
    << position[1] + (baseline.x_per_step * step.n * pov) \div step.d,
       position[2] + (baseline.y_per_step * step.n * pov) \div step.d >>

\* The final check of is_blocked: the final position holds an ally of the piece.
AllyAt(b, pl, id, final_position) ==
    b[final_position] # None /\ pl[b[final_position]] = pl[id]

\* The loop over the intermediate cells and the final check of is_blocked
\* (reached with an int step count and an in-bounds final position).
BlockedWalk(b, pl, blk, id, position, baseline, step) ==
    \/ \E sub_step \in 1 .. (step.n - 1) :
           b[ShiftedPosition(position, baseline, IntStep(sub_step),
                             pov_coefficient(pl, blk, id))] # None
    \/ AllyAt(b, pl, id,
              ShiftedPosition(position, baseline, step, pov_coefficient(pl, blk, id)))

\* The keywords of the call of is_valid_pathing made by is_blocked: no board_black.
IsBlockedPathingCall == {"piece", "initial_position", "final_position"}

\* is_blocked after its call of is_valid_pathing has returned `pathing`.
BlockedAfterPathing(b, pl, blk, id, position, baseline, step, pathing) ==
    IF \/ pathing = NoPathing
       \/ pathing[1] # baseline
       \/ ~SameStep(pathing[2], step)
    THEN Raise("NoPathingFoundError")
    \* range(1, step) accepts an int only
    ELSE IF step.isfloat THEN Raise("TypeError")
    ELSE Ret(<< BlockedWalk(b, pl, blk, id, position, baseline, step) >>)

\* is_blocked once final_position is computed.  With a float step count the
\* coordinates are floats, which format_coordinates cannot use as string indices.
BlockedTowards(b, pl, prom, blk, id, position, baseline, step, final_position) ==
    IF ~InBounds(final_position)
    THEN (IF step.isfloat THEN Raise("TypeError") ELSE OutOfBoundError(final_position))
    ELSE IF ~Binds(IsBlockedPathingCall, IsValidPathingParams) THEN Raise("TypeError")
    ELSE BlockedAfterPathing(b, pl, blk, id, position, baseline, step,
            is_valid_pathing(pl, prom, blk, id, position, final_position))

is_blocked(b, pl, prom, blk, id, position, baseline, step) ==
    BlockedTowards(b, pl, prom, blk, id, position, baseline, step,
                   ShiftedPosition(position, baseline, step, pov_coefficient(pl, blk, id)))

\* is_valid_move after is_blocked has returned or raised.
MoveAfterBlocked(blocked) ==
    IF blocked.kind = "raise" THEN blocked
    ELSE IF blocked.val = << TRUE >> THEN Raise("BlockedPathingError")
    ELSE Ret(<< TRUE >>)

\* is_valid_move after is_valid_pathing has returned available_pathing.
MoveAfterPathing(b, pl, prom, blk, id, initial_position, available_pathing) ==
    IF available_pathing = NoPathing THEN Raise("NoPathingFoundError")
    ELSE MoveAfterBlocked(is_blocked(b, pl, prom, blk, id, initial_position,
                                     available_pathing[1], available_pathing[2]))

is_valid_move(b, pl, prom, blk, id, initial_position, final_position) ==
    MoveAfterPathing(b, pl, prom, blk, id, initial_position,
                     is_valid_pathing(pl, prom, blk, id, initial_position, final_position))

-----------------------------------------------------------------------------
(* MovementUtils.get_threatening_list *)

\* The cells in the order of the two nested loops over x_coor and y_coor.
ScanCell(k) == << (k - 1) \div Dim, (k - 1) % Dim >>

\* The keywords of the call of is_valid_pathing made by get_threatening_list.
ThreateningListPathingCall == {"piece", "initial_position", "final_position"}

\* The loop body after is_blocked has returned or raised for the piece on cell c.
ScanAfterBlocked(id, c, pathing, blocked) ==
    IF blocked.kind = "raise" THEN blocked
    ELSE IF blocked.val = << TRUE >> THEN [kind |-> "skip"]
    ELSE [kind |-> "threat", val |-> << id, c, pathing[1], pathing[2] >>]

\* The loop body after is_valid_pathing has returned `pathing` for the piece on cell c.
ScanAfterPathing(b, pl, prom, blk, c, pathing) ==
    IF pathing = NoPathing THEN [kind |-> "skip"]
    ELSE ScanAfterBlocked(b[c], c, pathing,
                          is_blocked(b, pl, prom, blk, b[c], c, pathing[1], pathing[2]))

\* What the loop body of get_threatening_list does at cell c:
\* "skip" (continue), "threat" (append), or the exception it raises.
ScanStep(b, pl, prom, blk, position, threatening_player, c) ==
    IF b[c] = None THEN [kind |-> "skip"]
    ELSE IF pl[b[c]] # threatening_player THEN [kind |-> "skip"]
    ELSE IF ~Binds(ThreateningListPathingCall, IsValidPathingParams)
         THEN Raise("TypeError")
    ELSE ScanAfterPathing(b, pl, prom, blk, c,
                          is_valid_pathing(pl, prom, blk, b[c], c, position))

\* The i-th index, in increasing order, of a set of indices.
Nth(indices, i) == CHOOSE k \in indices : Cardinality({j \in indices : j <= k}) = i

\* The threats among the steps, in scan order.
ThreatsIn(steps, threats) ==
    [i \in 1 .. Cardinality(threats) |-> steps[Nth(threats, i)].val]

\* The outcome of the scan whose loop body did steps[k] at the k-th cell: the first
\* exception raised, or the threats in scan order.
ScanOutcome(steps, raising) ==
    IF raising # {} THEN steps[First(raising)]
    ELSE Ret(ThreatsIn(steps, {k \in 1 .. Dim * Dim : steps[k].kind = "threat"}))

ThreatScan(steps) ==
    ScanOutcome(steps, {k \in 1 .. Dim * Dim : steps[k].kind = "raise"})

get_threatening_list(b, pl, prom, blk, position, threatening_player) ==
    ThreatScan([k \in 1 .. Dim * Dim |->
                   ScanStep(b, pl, prom, blk, position, threatening_player, ScanCell(k))])

-----------------------------------------------------------------------------
(* CheckmateUtils.get_checking_list, is_checkmate *)

\* The cells that hold a king not of the checking player, as indices of the scan.
KingCells(b, pl, checking_player) ==
    {k \in 1 .. Dim * Dim :
        /\ b[ScanCell(k)] # None
        /\ TypeOf(b[ScanCell(k)]) = "KingPiece"
        /\ pl[b[ScanCell(k)]] # checking_player}

\* The greatest index of a non-empty set of indices.
Last(indices) == CHOOSE k \in indices : \A j \in indices : j <= k

\* king_position: the last such cell of the scan (<< >>: None).
KingPosition(kings) == IF kings = {} THEN << >> ELSE ScanCell(Last(kings))

\* get_checking_list returns the threat list alone, not the pair its docstring names.
get_checking_list(b, pl, prom, blk, checking_player) ==
    get_threatening_list(b, pl, prom, blk,
                         KingPosition(KingCells(b, pl, checking_player)), checking_player)

\* The first statements of is_checkmate, on what get_checking_list returned: the list
\* is unpacked into (king_position, checking_threats).  A list of another length
\* than 2 raises ValueError; of length 2 it binds king_position to a threat tuple,
\* whose first component (a piece) then indexes board_matrix: TypeError.  No path
\* reaches the statements after them.
Unpack(checking) ==
    IF checking.kind = "raise" THEN checking
    ELSE IF Len(checking.val) # 2 THEN Raise("ValueError")
    ELSE Raise("TypeError")

is_checkmate(b, pl, prom, blk, checked_side_captured_pieces, checking_player) ==
    Unpack(get_checking_list(b, pl, prom, blk, checking_player))

-----------------------------------------------------------------------------
(* InvalidDroppingUtils.check_for_uchifuzume, MovementUtils.is_valid_drop *)

\* The keywords of the call of is_checkmate made by check_for_uchifuzume.
UchifuzumeCheckmateCall == {"board_matrix", "checking_player"}

\* The call of is_checkmate made by check_for_uchifuzume on the grid `placed`.
ProbeCheckmate(placed, pl, prom, blk, id) ==
    IF ~Binds(UchifuzumeCheckmateCall, IsCheckmateParams)
    THEN Raise("TypeError")
    ELSE is_checkmate(placed, pl, prom, blk, << >>, pl[id])

\* check_for_uchifuzume after that call: the old occupant is put back by the
\* statement after the call, which an exception skips.
AfterProbe(b, placed, mate) ==
    IF mate.kind = "raise"
    THEN [res |-> mate, board |-> placed]
    ELSE [res |-> mate, board |-> b]

\* check_for_uchifuzume with the piece put on the cell.
ProbeOn(b, placed, pl, prom, blk, id) ==
    AfterProbe(b, placed, ProbeCheckmate(placed, pl, prom, blk, id))

\* check_for_uchifuzume on the grid b: its outcome and the grid it leaves.
check_for_uchifuzume(b, pl, prom, blk, id, position) ==
    ProbeOn(b, [b EXCEPT ![position] = id], pl, prom, blk, id)

\* The keywords of the three calls made by is_valid_drop.
ValidDropStuckCall == {"piece", "board_black", "board_dim", "board_matrix", "drop_position"}

ValidDropNifuCall == {"piece", "board_dim", "board_matrix", "drop_position"}

ValidDropUchifuzumeCall == {"piece", "board_matrix", "drop_position"}

\* is_valid_drop after check_for_uchifuzume has returned or raised.
DropAfterProbe(id, probe) ==
    IF probe.res.kind = "raise" THEN probe
    ELSE IF probe.res.val = << TRUE >> /\ TypeOf(id) = "PawnPiece"
    THEN [res |-> InvalidDropError("post-pawn-drop checkmate"), board |-> probe.board]
    ELSE [res |-> Ret(<< TRUE >>), board |-> probe.board]

\* is_valid_drop on the grid b: its outcome and the grid it leaves.
is_valid_drop(b, pl, prom, blk, id, drop_position) ==
    IF ~Binds(ValidDropStuckCall, CheckForStuckPieceParams)
    THEN [res |-> Raise("TypeError"), board |-> b]
    ELSE IF check_for_stuck_piece(pl, prom, blk, id, drop_position)
    THEN [res |-> InvalidDropError("piece not being stuck after drop"), board |-> b]
    ELSE IF ~Binds(ValidDropNifuCall, CheckForNifuParams)
    THEN [res |-> Raise("TypeError"), board |-> b]
    ELSE IF check_for_nifu(b, pl, prom, id, drop_position) /\ TypeOf(id) = "PawnPiece"
    THEN [res |-> InvalidDropError("nifu"), board |-> b]
    ELSE IF ~Binds(ValidDropUchifuzumeCall, CheckForUchifuzumeParams)
    THEN [res |-> Raise("TypeError"), board |-> b]
    ELSE DropAfterProbe(id, check_for_uchifuzume(b, pl, prom, blk, id, drop_position))

-----------------------------------------------------------------------------
(* ShogiBoard: boards/board.py *)

\* The outcome of a ShogiBoard method: what it returns or raises, and the state it leaves.
Outcome(res, b, cap, pl, prom, next, win) ==
    [res |-> res, board |-> b, captured_pieces |-> cap, player |-> pl,
     is_promoted |-> prom, next_action |-> next, winner |-> win]

\* The method raises e to its caller before it has changed anything.
Rejected(e) ==
    Outcome(e, board, captured_pieces, player, is_promoted, next_action, winner)

\* The promotion-zone guard of perform_move.
NotInPromotionZone(current_player, initial_position, final_position) ==
    \/ /\ current_player = black
       /\ ~(0 <= initial_position[1] /\ initial_position[1] <= BlackZoneMax)
       /\ ~(0 <= final_position[1] /\ final_position[1] <= BlackZoneMax)
    \/ /\ current_player = Opp(black)
       /\ ~(Dim - WhiteZoneOffset < initial_position[1] /\ initial_position[1] < Dim)
       /\ ~(Dim - WhiteZoneOffset < final_position[1] /\ final_position[1] < Dim)

\* The capture: the piece on the final position, if any, takes the mover's side tag
\* and joins the mover's pool.
CapturedPlayer(current_player, target) ==
    IF target # None THEN [player EXCEPT ![target] = current_player] ELSE player

\* CapturedPool with a fault: the captured piece joins the pool of the side that lost it.
CapturedPoolOfLoser(current_player, target) ==
    IF target # None
    THEN [captured_pieces EXCEPT ![Opp(current_player)] = Append(@, target)]
    ELSE captured_pieces

CapturedPool(current_player, target) ==
    IF target # None
    THEN [captured_pieces EXCEPT ![current_player] = Append(@, target)]
    ELSE captured_pieces

\* The branch of perform_move taken when is_valid_move returns True, once the
\* capture is done (pl1, cap1), the mover stands on the final position (b1) and
\* check_for_stuck_piece has answered `stuck`.
FinishMove(current_player, initial_position, mover, pl1, cap1, b1, stuck) ==
    IF stuck /\ ~promotable(mover)
    \* NotPromotableError, caught by the handler: the origin is not cleared
    THEN Outcome(Ret(<< >>), b1, cap1, pl1, is_promoted, next_action, Opp(current_player))
    ELSE Outcome(Ret(<< >>), [b1 EXCEPT ![initial_position] = None], cap1, pl1,
                 IF stuck THEN promote(is_promoted, mover) ELSE is_promoted,
                 Opp(next_action), winner)

ApplyMove(current_player, initial_position, final_position) ==
    FinishMove(current_player, initial_position, board[initial_position],
               CapturedPlayer(current_player, board[final_position]),
               CapturedPool(current_player, board[final_position]),
               [board EXCEPT ![final_position] = board[initial_position]],
               check_for_stuck_piece(CapturedPlayer(current_player, board[final_position]),
                                     is_promoted, black, board[initial_position],
                                     final_position))

\* MoveAfterValid with a fault: the grid is written before the validation, so a
\* forfeited move leaves the mover on the final position too.
MoveAfterValidEarlyWrite(current_player, initial_position, final_position, valid) ==
    IF valid.kind = "raise"
    THEN IF valid.err \in GameplayException
         THEN Outcome(Ret(<< >>), [board EXCEPT ![final_position] = board[initial_position]],
                      captured_pieces, player, is_promoted, next_action, Opp(current_player))
         ELSE Rejected(valid)
    ELSE ApplyMove(current_player, initial_position, final_position)

\* MoveAfterValid with a fault: the handler also passes the turn.
MoveAfterValidFlipping(current_player, initial_position, final_position, valid) ==
    IF valid.kind = "raise"
    THEN IF valid.err \in GameplayException
         THEN Outcome(Ret(<< >>), board, captured_pieces, player, is_promoted,
                      Opp(next_action), Opp(current_player))
         ELSE Rejected(valid)
    ELSE ApplyMove(current_player, initial_position, final_position)

\* perform_move after is_valid_move has returned or raised: the handler catches a
\* GameplayException and gives the game to the opponent; any other exception
\* reaches the caller.
MoveAfterValid(current_player, initial_position, final_position, valid) ==
    IF valid.kind = "raise"
    THEN IF valid.err \in GameplayException
         THEN Outcome(Ret(<< >>), board, captured_pieces, player, is_promoted,
                      next_action, Opp(current_player))
         ELSE Rejected(valid)
    ELSE ApplyMove(current_player, initial_position, final_position)

\* The try block of perform_move and its handler.
TryMove(current_player, initial_position, final_position) ==
    MoveAfterValid(current_player, initial_position, final_position,
                   is_valid_move(board, player, is_promoted, black, board[initial_position],
                                 initial_position, final_position))

\* perform_move with a fault: the guard on an ended game is missing.
perform_move_after_end(current_player, initial_position, final_position, promote_requested) ==
    IF black = NoPlayer THEN Rejected(Raise("GameNotInitiatedError"))
    ELSE IF current_player # next_action THEN Rejected(Raise("IncorrectPlayerError"))
    ELSE IF ~InBounds(initial_position) THEN Rejected(OutOfBoundError(initial_position))
    ELSE IF ~InBounds(final_position) THEN Rejected(OutOfBoundError(final_position))
    ELSE IF board[initial_position] = None THEN Rejected(Raise("EmptyCellError"))
    ELSE IF player[board[initial_position]] # current_player
         THEN Rejected(Raise("PieceNotOwnedError"))
    ELSE IF promote_requested /\ ~promotable(board[initial_position])
         THEN Rejected(Raise("NotPromotableError"))
    ELSE IF promote_requested
            /\ NotInPromotionZone(current_player, initial_position, final_position)
         THEN Rejected(Raise("NotInPromotionZoneError"))
    ELSE TryMove(current_player, initial_position, final_position)

perform_move(current_player, initial_position, final_position, promote_requested) ==
    IF black = NoPlayer THEN Rejected(Raise("GameNotInitiatedError"))
    ELSE IF winner # NoPlayer THEN Rejected(Raise("GameEndedError"))
    ELSE IF current_player # next_action THEN Rejected(Raise("IncorrectPlayerError"))
    ELSE IF ~InBounds(initial_position) THEN Rejected(OutOfBoundError(initial_position))
    ELSE IF ~InBounds(final_position) THEN Rejected(OutOfBoundError(final_position))
    ELSE IF board[initial_position] = None THEN Rejected(Raise("EmptyCellError"))
    ELSE IF player[board[initial_position]] # current_player
         THEN Rejected(Raise("PieceNotOwnedError"))
    ELSE IF promote_requested /\ ~promotable(board[initial_position])
         THEN Rejected(Raise("NotPromotableError"))
    ELSE IF promote_requested
            /\ NotInPromotionZone(current_player, initial_position, final_position)
         THEN Rejected(Raise("NotInPromotionZoneError"))
    ELSE TryMove(current_player, initial_position, final_position)

\* list.remove(piece): without the first entry equal to the piece.
RemoveAt(seq, i) == SubSeq(seq, 1, i - 1) \o SubSeq(seq, i + 1, Len(seq))

Remove(seq, id) == RemoveAt(seq, First({j \in 1 .. Len(seq) : seq[j] = id}))

\* `piece in list`: by the ids of the pieces (BasePiece.__eq__).
InPool(cap, id) == \E i \in 1 .. Len(cap) : cap[i] = id

\* The keywords of the call of is_valid_drop made by perform_drop.
PerformDropValidDropCall ==
    {"piece", "board_black", "board_dim", "board_matrix", "drop_position",
     "opponent_captured_pieces"}

\* perform_drop after is_valid_drop has returned or raised.
DropAfterValid(id, current_player, position, valid) ==
    IF valid.res.kind = "raise"
    THEN IF valid.res.err \in GameplayException
         THEN Outcome(Ret(<< >>), valid.board, captured_pieces, player, is_promoted,
                      next_action, Opp(current_player))
         ELSE Outcome(valid.res, valid.board, captured_pieces, player, is_promoted,
                      next_action, winner)
    ELSE Outcome(Ret(<< >>), [valid.board EXCEPT ![position] = id],
                 [captured_pieces EXCEPT ![current_player] = Remove(@, id)],
                 player, is_promoted, Opp(next_action), winner)

\* The try block of perform_drop and its handler.
TryDrop(id, current_player, position) ==
    DropAfterValid(id, current_player, position,
        IF ~Binds(PerformDropValidDropCall, IsValidDropParams)
        THEN [res |-> Raise("TypeError"), board |-> board]
        ELSE is_valid_drop(board, player, is_promoted, black, id, position))

perform_drop(id, current_player, position) ==
    IF black = NoPlayer THEN Rejected(Raise("GameNotInitiatedError"))
    ELSE IF winner # NoPlayer THEN Rejected(Raise("GameEndedError"))
    ELSE IF current_player # next_action THEN Rejected(Raise("IncorrectPlayerError"))
    ELSE IF ~InBounds(position) THEN Rejected(OutOfBoundError(position))
    ELSE IF board[position] # None THEN Rejected(Raise("OccupiedCellError"))
    ELSE IF ~InPool(captured_pieces[current_player], id)
         THEN Rejected(Raise("DroppingPieceNotExistedError"))
    ELSE TryDrop(id, current_player, position)

-----------------------------------------------------------------------------
(* The state machine *)

\* The record of the call in progress: its operation, its arguments and its outcome.
Call(op, pl, id, ip, fp, pr, bl, st, res) ==
    [op |-> op, current_player |-> pl, piece |-> id, initial_position |-> ip,
     final_position |-> fp, promote |-> pr, baseline |-> bl, step |-> st, res |-> res]

\* The baseline and the step count recorded for a call that takes none.
NoBaseline == MovementBaseline(0, 0, FALSE, FALSE)

NoStep == IntStep(0)

\* No call in progress.
NoCall == Call("none", NoPlayer, None, <<0, 0>>, <<0, 0>>, FALSE, NoBaseline, NoStep, Ret(<< >>))

\* The index of the starting unit on cell c, if there is one.
UnitsAt(c) ==
    {i \in 1 .. Len(StartingUnits) :
        << StartingUnits[i].coor_x, StartingUnits[i].coor_y >> = c}

\* ShogiBoard.__init__: the grid with the starting units (a later unit of the profile
\* replaces an earlier one on the same cell).
StartBoard == [c \in Cells |-> IF UnitsAt(c) = {} THEN None ELSE Last(UnitsAt(c)) - 1]

\* After ShogiBoard.__init__: the units own their side's tag; empty pools; the first
\* mover is black and moves next; no winner.
Init ==
    /\ black \in Player
    /\ board = StartBoard
    /\ captured_pieces = [p \in Player |-> << >>]
    /\ player = [id \in PieceIds |->
                    IF StartingUnits[id + 1].side = "black" THEN black ELSE Opp(black)]
    /\ is_promoted = [id \in PieceIds |-> FALSE]
    /\ next_action = black
    /\ winner = NoPlayer
    /\ lastCall = NoCall
    /\ probes = 0
    /\ stack = << >>

\* A method of the board has run with the outcome out: the state it leaves, and the
\* record of the call with what it returned or raised.
Does(call, out) ==
    /\ board' = out.board
    /\ captured_pieces' = out.captured_pieces
    /\ player' = out.player
    /\ is_promoted' = out.is_promoted
    /\ next_action' = out.next_action
    /\ winner' = out.winner
    /\ lastCall' = [call EXCEPT !.res = out.res]
    /\ stack' = << >>
    /\ UNCHANGED <<black, probes>>

PerformMove ==
    /\ lastCall = NoCall
    /\ \E current_player \in Player, initial_position \in Positions,
          final_position \in Positions, promote_requested \in BOOLEAN :
          Does(Call("perform_move", current_player, None, initial_position,
                    final_position, promote_requested, NoBaseline, NoStep, Ret(<< >>)),
               perform_move(current_player, initial_position, final_position,
                            promote_requested))

PerformDrop ==
    /\ lastCall = NoCall
    /\ \E id \in PieceIds, current_player \in Player, position \in Positions :
          Does(Call("perform_drop", current_player, id, <<0, 0>>, position, FALSE,
                    NoBaseline, NoStep, Ret(<< >>)),
               perform_drop(id, current_player, position))

\* The caller has taken the outcome of its call and may call again.
Resume ==
    /\ lastCall # NoCall
    /\ lastCall' = NoCall
    /\ UNCHANGED <<board, captured_pieces, player, is_promoted, black, next_action,
                   winner, probes, stack>>

Next == PerformMove \/ PerformDrop \/ Resume

Spec == Init /\ [][Next]_vars

-----------------------------------------------------------------------------
(* Direct calls of the utilities of boards/util.py and of the piece methods, *)
(* on the board and the pieces of a game.                                    *)

\* A utility has run on the game's grid and pieces: the grid it leaves, and the
\* record of the call with what it returned or raised.
Utility(call, res, grid) ==
    /\ board' = grid
    /\ lastCall' = [call EXCEPT !.res = res]
    /\ stack' = << >>
    /\ UNCHANGED <<captured_pieces, player, is_promoted, black, next_action, winner, probes>>

\* The step counts a caller passes: an int, or the float is_valid_pathing gave it.
Steps == {[n |-> k, d |-> 1, isfloat |-> f] : k \in 0 .. (Dim - 1), f \in BOOLEAN}

\* The cell a piece stands on.
Standing(id) == {c \in Cells : board[c] = id}

IsValidPathing ==
    /\ lastCall = NoCall
    /\ \E id \in PieceIds, initial_position \in Cells, final_position \in Cells :
          Utility(Call("is_valid_pathing", player[id], id, initial_position,
                       final_position, FALSE, NoBaseline, NoStep, Ret(<< >>)),
                  Ret(is_valid_pathing(player, is_promoted, black, id,
                                       initial_position, final_position)),
                  board)

IsBlocked ==
    /\ lastCall = NoCall
    /\ \E id \in PieceIds, step \in Steps :
       \E position \in Standing(id), i \in 1 .. Len(moves_in_use(id)) :
          Utility(Call("is_blocked", player[id], id, position, position, FALSE,
                       moves_in_use(id)[i], step, Ret(<< >>)),
                  is_blocked(board, player, is_promoted, black, id, position,
                             moves_in_use(id)[i], step),
                  board)

\* IsValidMove with a fault: the validator tries the move on the grid, as
\* check_for_uchifuzume tries a drop, and does not take it back.
IsValidMoveTrying ==
    /\ lastCall = NoCall
    /\ \E id \in PieceIds, final_position \in Cells :
       \E initial_position \in Standing(id) :
          Utility(Call("is_valid_move", player[id], id, initial_position,
                       final_position, FALSE, NoBaseline, NoStep, Ret(<< >>)),
                  is_valid_move(board, player, is_promoted, black, id,
                                initial_position, final_position),
                  [board EXCEPT ![final_position] = id])

IsValidMove ==
    /\ lastCall = NoCall
    /\ \E id \in PieceIds, final_position \in Cells :
       \E initial_position \in Standing(id) :
          Utility(Call("is_valid_move", player[id], id, initial_position,
                       final_position, FALSE, NoBaseline, NoStep, Ret(<< >>)),
                  is_valid_move(board, player, is_promoted, black, id,
                                initial_position, final_position),
                  board)

GetThreateningList ==
    /\ lastCall = NoCall
    /\ \E position \in Cells, threatening_player \in Player :
          Utility(Call("get_threatening_list", threatening_player, None, <<0, 0>>,
                       position, FALSE, NoBaseline, NoStep, Ret(<< >>)),
                  get_threatening_list(board, player, is_promoted, black, position,
                                       threatening_player),
                  board)

\* piece.promote() and piece.demote(), called on a piece of the game.
Promote ==
    /\ lastCall = NoCall
    /\ probes < MaxProbes
    /\ \E id \in PieceIds :
          /\ is_promoted' = promote(is_promoted, id)
          /\ lastCall' = Call("promote", player[id], id, <<0, 0>>, <<0, 0>>, FALSE,
                              NoBaseline, NoStep, Ret(<< >>))
    /\ probes' = probes + 1
    /\ UNCHANGED <<board, captured_pieces, player, black, next_action, winner, stack>>

Demote ==
    /\ lastCall = NoCall
    /\ probes < MaxProbes
    /\ \E id \in PieceIds :
          /\ is_promoted' = demote(is_promoted, id)
          /\ lastCall' = Call("demote", player[id], id, <<0, 0>>, <<0, 0>>, FALSE,
                              NoBaseline, NoStep, Ret(<< >>))
    /\ probes' = probes + 1
    /\ UNCHANGED <<board, captured_pieces, player, black, next_action, winner, stack>>

NextQuery ==
    \/ IsValidPathing
    \/ IsBlocked
    \/ IsValidMove
    \/ GetThreateningList
    \/ Promote
    \/ Demote
    \/ Resume

SpecQuery == Init /\ [][NextQuery]_vars

\* The pieces of the signature `piece: PawnPiece`.
Pawns == {id \in PieceIds : TypeOf(id) = "PawnPiece"}

\* A direct call of a drop check: its outcome and the grid it leaves.
DropCheck(call, out) ==
    /\ Utility(call, out.res, out.board)

IsValidDrop ==
    /\ lastCall = NoCall
    /\ \E id \in PieceIds, drop_position \in Cells :
          DropCheck(Call("is_valid_drop", player[id], id, <<0, 0>>, drop_position,
                         FALSE, NoBaseline, NoStep, Ret(<< >>)),
                    is_valid_drop(board, player, is_promoted, black, id, drop_position))

CheckForUchifuzume ==
    /\ lastCall = NoCall
    /\ probes < MaxProbes
    /\ \E id \in Pawns, position \in Cells :
          /\ board' = check_for_uchifuzume(board, player, is_promoted, black, id,
                                           position).board
          /\ lastCall' = Call("check_for_uchifuzume", player[id], id, <<0, 0>>, position,
                              FALSE, NoBaseline, NoStep,
                              check_for_uchifuzume(board, player, is_promoted, black, id,
                                                   position).res)
    /\ probes' = probes + 1
    /\ UNCHANGED <<captured_pieces, player, is_promoted, black, next_action, winner,
                   stack>>

NextDrop == IsValidDrop \/ CheckForUchifuzume \/ Resume

SpecDrop == Init /\ [][NextDrop]_vars

-----------------------------------------------------------------------------
(* Properties *)

\* The step that makes a call of one of the operations ops; lastCall' records it.
Calls(ops) == lastCall = NoCall /\ lastCall'.op \in ops

BoardOps == {"perform_move", "perform_drop"}

TimesOnGrid(id) == Cardinality({c \in Cells : board[c] = id})

TimesInPool(p, id) ==
    Cardinality({i \in 1 .. Len(captured_pieces[p]) : captured_pieces[p][i] = id})

\* C1: after any sequence of perform_move and perform_drop calls from the starting
\* layout, every piece created at construction is in exactly one place: on exactly
\* one cell of the grid, or once in exactly one of the two pools.
C1_EveryPieceInExactlyOnePlace ==
    \A id \in PieceIds :
        TimesOnGrid(id) + TimesInPool("Junior", id) + TimesInPool("Senior", id) = 1

\* A perform_move call that passed the guards has ended in forfeiture.
C1_AfterForfeitedMove ==
    /\ lastCall.op = "perform_move"
    /\ lastCall.res.kind = "return"
    /\ winner = Opp(lastCall.current_player)
    /\ board[lastCall.initial_position] # None

\* The guards of the call c, numbered in the order: 1 game initialized, 2 game not
\* ended, 3 caller is the side to move, 4 coordinates in bounds, 5 origin occupied
\* (move) or destination empty (drop), 6 origin piece owned by the caller (move) or
\* piece in the caller's pool (drop), 7 piece promotable, 8 endpoint in the promotion
\* zone.  A guard that reads a cell fails only where the cell exists.
MoveGuardFails(g, c) ==
    CASE g = 1 -> black = NoPlayer
      [] g = 2 -> winner # NoPlayer
      [] g = 3 -> c.current_player # next_action
      [] g = 4 -> ~InBounds(c.initial_position) \/ ~InBounds(c.final_position)
      [] g = 5 -> InBounds(c.initial_position) /\ board[c.initial_position] = None
      [] g = 6 -> /\ InBounds(c.initial_position)
                  /\ board[c.initial_position] # None
                  /\ player[board[c.initial_position]] # c.current_player
      [] g = 7 -> /\ c.promote
                  /\ InBounds(c.initial_position)
                  /\ board[c.initial_position] # None
                  /\ ~promotable(board[c.initial_position])
      [] g = 8 -> /\ c.promote
                  /\ NotInPromotionZone(c.current_player, c.initial_position,
                                        c.final_position)

DropGuardFails(g, c) ==
    CASE g = 1 -> black = NoPlayer
      [] g = 2 -> winner # NoPlayer
      [] g = 3 -> c.current_player # next_action
      [] g = 4 -> ~InBounds(c.final_position)
      [] g = 5 -> InBounds(c.final_position) /\ board[c.final_position] # None
      [] g = 6 -> ~InPool(captured_pieces[c.current_player], c.piece)
      [] g = 7 -> FALSE
      [] g = 8 -> FALSE

FailingGuards(c) ==
    {g \in 1 .. 8 : IF c.op = "perform_move" THEN MoveGuardFails(g, c)
                                              ELSE DropGuardFails(g, c)}

\* The error of each guard.
GuardError(g, c) ==
    CASE g = 1 -> "GameNotInitiatedError"
      [] g = 2 -> "GameEndedError"
      [] g = 3 -> "IncorrectPlayerError"
      [] g = 4 -> "OutOfBoundError"
      [] g = 5 -> IF c.op = "perform_move" THEN "EmptyCellError" ELSE "OccupiedCellError"
      [] g = 6 -> IF c.op = "perform_move" THEN "PieceNotOwnedError"
                                           ELSE "DroppingPieceNotExistedError"
      [] g = 7 -> "NotPromotableError"
      [] g = 8 -> "NotInPromotionZoneError"

\* The pathing of the move of the call c, and whether the move is illegal: it has no
\* pathing, or the walk along its pathing is blocked.
ResolvedPathing(c) ==
    is_valid_pathing(player, is_promoted, black, board[c.initial_position],
                     c.initial_position, c.final_position)

MoveIllegal(c) ==
    \/ Len(ResolvedPathing(c)) = 0
    \/ BlockedWalk(board, player, black, board[c.initial_position], c.initial_position,
                   ResolvedPathing(c)[1],
                   IntStep(ResolvedPathing(c)[2].n \div ResolvedPathing(c)[2].d))

\* The drop of the call c breaks a drop rule that can be evaluated: the piece would
\* be immobile, or it is a second pawn on the file.
DropIllegal(c) ==
    \/ check_for_stuck_piece(player, is_promoted, black, c.piece, c.final_position)
    \/ /\ check_for_nifu(board, player, is_promoted, c.piece, c.final_position)
       /\ TypeOf(c.piece) = "PawnPiece"

Illegal(c) == IF c.op = "perform_move" THEN MoveIllegal(c) ELSE DropIllegal(c)

\* C2: a perform_move or perform_drop call that passes every guard and whose
\* legality check fails (no pathing, blocked pathing, a drop rule) does not raise:
\* winner becomes the opponent of the acting side and the side-to-move is kept.
C2_LegalityFailureForfeits ==
    [][ (Calls(BoardOps) /\ FailingGuards(lastCall') = {} /\ Illegal(lastCall')) =>
            /\ lastCall'.res.kind = "return"
            /\ winner' = Opp(lastCall'.current_player)
            /\ next_action' = next_action ]_vars

\* C3: a perform_move or perform_drop call rejected by a guard raises the error of
\* that guard and leaves the grid, the pools, every piece's side and promotion flag,
\* the side-to-move and winner as they were.
C3_GuardRejectionRaisesAndChangesNothing ==
    [][ (Calls(BoardOps) /\ FailingGuards(lastCall') # {}) =>
            /\ lastCall'.res.kind = "raise"
            /\ \E g \in FailingGuards(lastCall') :
                   lastCall'.res.err = GuardError(g, lastCall')
            /\ gameState' = gameState ]_vars

\* C4: once winner is set, every later perform_move and perform_drop call is
\* rejected with GameEnded, and the grid, the pools, the side-to-move and winner
\* never change again.
C4_EndedIsAbsorbing ==
    [][ winner # NoPlayer =>
            /\ <<board, captured_pieces, next_action, winner>>' =
                   <<board, captured_pieces, next_action, winner>>
            /\ (Calls(BoardOps) =>
                   lastCall'.res.kind = "raise" /\ lastCall'.res.err = "GameEndedError")
      ]_vars

\* A call made on an ended game has been rejected.
C4_CallAfterEnd ==
    /\ winner # NoPlayer
    /\ lastCall.op \in BoardOps
    /\ lastCall.res.err = "GameEndedError"

\* The step is a perform_move or perform_drop call that succeeds: it returns and
\* does not end the game.
Succeeds ==
    /\ Calls(BoardOps)
    /\ lastCall'.res.kind = "return"
    /\ winner' = winner

\* C5: the side-to-move changes only when a perform_move or perform_drop call
\* succeeds; a call that succeeds is made by the side to move and passes the turn to
\* the other side.
C5_TurnFlipsOnlyOnSuccess ==
    [][ /\ (next_action' # next_action => Succeeds)
        /\ (Succeeds => /\ lastCall'.current_player = next_action
                        /\ next_action' = Opp(next_action)) ]_vars

\* A call of the side to move has ended the game and the turn has not passed.
C5_ForfeitKeepsTurn ==
    /\ lastCall.op \in BoardOps
    /\ lastCall.res.kind = "return"
    /\ winner # NoPlayer
    /\ next_action = lastCall.current_player
    /\ next_action = black

\* The earliest guard of a non-empty set of guards.
Earliest(guards) == CHOOSE g \in guards : \A h \in guards : g <= h

\* C6: when several guards of a perform_move or perform_drop call fail at once, the
\* error raised is the one of the earliest failing guard.
C6_EarliestFailingGuardReports ==
    [][ (Calls(BoardOps) /\ Cardinality(FailingGuards(lastCall')) >= 2) =>
            /\ lastCall'.res.kind = "raise"
            /\ lastCall'.res.err =
                   GuardError(Earliest(FailingGuards(lastCall')), lastCall') ]_vars

\* C7: is_valid_drop and the check_for_uchifuzume probe leave the grid and both
\* pools as they were before the call, on every exit path.
C7_DropChecksRestoreGrid ==
    [][ Calls({"is_valid_drop", "check_for_uchifuzume"}) =>
            board' = board /\ captured_pieces' = captured_pieces ]_vars

\* The displacement of the call c is k steps of the baseline b under the point of
\* view pov, with k = 1 when b is step-limited.
SignedMatch(b, pov, c, k) ==
    /\ c.final_position[1] - c.initial_position[1] = b.x_per_step * pov * k
    /\ c.final_position[2] - c.initial_position[2] = b.y_per_step * pov * k
    /\ (b.step_limit => k = 1)

\* The baselines of the active move list of the piece of the call c that match its
\* displacement, each with its non-negative whole step count.
Matching(c) ==
    {m \in (1 .. Len(MovesInUse(is_promoted, c.piece))) \X (0 .. Dim) :
        SignedMatch(MovesInUse(is_promoted, c.piece)[m[1]],
                    pov_coefficient(player, black, c.piece), c, m[2])}

\* C8: is_valid_pathing returns None if and only if no baseline of the piece's
\* active move list matches the displacement with a non-negative integer step count
\* that is 1 when the baseline is step-limited; otherwise it returns such a
\* baseline with that step count.
C8_PathingIsNoneIffNoBaselineMatches ==
    lastCall.op = "is_valid_pathing" =>
        IF Matching(lastCall) = {}
        THEN Len(lastCall.res.val) = 0
        ELSE /\ Len(lastCall.res.val) = 2
             /\ \E m \in Matching(lastCall) :
                    /\ lastCall.res.val[1] = MovesInUse(is_promoted, lastCall.piece)[m[1]]
                    /\ SameStep(lastCall.res.val[2], IntStep(m[2]))

\* The cell k steps along the baseline of the is_blocked call c, from its origin.
Along(c, k) ==
    ShiftedPosition(c.initial_position, c.baseline, IntStep(k),
                    pov_coefficient(player, black, c.piece))

\* The (baseline, steps) of the is_blocked call c is resolved and its destination
\* is on the board.
Resolved(c) ==
    /\ InBounds(Along(c, c.step.n))
    /\ Len(is_valid_pathing(player, is_promoted, black, c.piece, c.initial_position,
                            Along(c, c.step.n))) = 2
    /\ is_valid_pathing(player, is_promoted, black, c.piece, c.initial_position,
                        Along(c, c.step.n))[1] = c.baseline
    /\ SameStep(is_valid_pathing(player, is_promoted, black, c.piece,
                                 c.initial_position, Along(c, c.step.n))[2], c.step)

\* C9: for a resolved (baseline, steps) with an in-bounds destination, is_blocked
\* returns true if and only if a cell at step 1 .. steps-1 along the baseline is
\* occupied or the destination holds a piece of the moving piece's side.
C9_BlockedIffOccupiedOnTheWayOrAllyAtEnd ==
    (lastCall.op = "is_blocked" /\ Resolved(lastCall)) =>
        /\ lastCall.res.kind = "return"
        /\ lastCall.res.val =
               << \/ \E k \in 1 .. (lastCall.step.n - 1) : board[Along(lastCall, k)] # None
                  \/ /\ board[Along(lastCall, lastCall.step.n)] # None
                     /\ player[board[Along(lastCall, lastCall.step.n)]]
                            = player[lastCall.piece] >>

QueryOps == {"is_valid_pathing", "is_blocked", "is_valid_move", "get_threatening_list"}

\* C10: is_valid_pathing, is_blocked, is_valid_move and get_threatening_list never
\* change the grid, the pools, the side-to-move, winner, or any piece's side or
\* promotion flag, whether they return a value or fail.
C10_QueriesChangeNothing ==
    [][ Calls(QueryOps) => gameState' = gameState ]_vars

\* is_valid_move has failed on a move of a piece of the board.
C10_AfterFailedValidation ==
    /\ lastCall.op = "is_valid_move"
    /\ lastCall.res.kind = "raise"
    /\ board[lastCall.initial_position] = lastCall.piece

-----------------------------------------------------------------------------
(* Direct calls of CheckmateUtils.is_checkmate, on the grids the game and the *)
(* probes of check_for_uchifuzume leave.                                      *)

IsCheckmate ==
    /\ lastCall = NoCall
    /\ \E checking_player \in Player :
          Utility(Call("is_checkmate", checking_player, None, <<0, 0>>, <<0, 0>>, FALSE,
                       NoBaseline, NoStep, Ret(<< >>)),
                  is_checkmate(board, player, is_promoted, black,
                               captured_pieces[Opp(checking_player)], checking_player),
                  board)

NextMate == IsCheckmate \/ CheckForUchifuzume \/ Resume

SpecMate == Init /\ [][NextMate]_vars

\* The piece on the cell c belongs to `side` and reaches the cell `target`: it has a
\* pathing to it and the walk along the pathing is not blocked.
Threatens(c, target, side) ==
    /\ board[c] # None
    /\ player[board[c]] = side
    /\ c # target
    /\ Len(is_valid_pathing(player, is_promoted, black, board[c], c, target)) = 2
    /\ ~BlockedWalk(board, player, black, board[c], c,
                    is_valid_pathing(player, is_promoted, black, board[c], c, target)[1],
                    IntStep(is_valid_pathing(player, is_promoted, black, board[c], c,
                                             target)[2].n))

\* The cells of the kings that defend against `attacker`.
DefendedKings(attacker) ==
    {c \in Cells : board[c] # None /\ TypeOf(board[c]) = "KingPiece"
                   /\ player[board[c]] # attacker}

\* The cells from which `side` threatens the cell `target`.
ThreatsOn(target, side) == {c \in Cells : Threatens(c, target, side)}

\* C11: on a board that has the defender's king, if no piece of the attacking side
\* threatens the king's cell, is_checkmate returns false.
C11_NoThreatIsNoCheckmate ==
    (/\ lastCall.op = "is_checkmate"
     /\ DefendedKings(lastCall.current_player) # {}
     /\ \A k \in DefendedKings(lastCall.current_player) :
            ThreatsOn(k, lastCall.current_player) = {})
        => (lastCall.res.kind = "return" /\ lastCall.res.val = << FALSE >>)

\* C12: if the defending king is checked by exactly one piece and a piece of the
\* defending side can capture that piece (it threatens the checking piece's cell
\* with an unblocked path), is_checkmate returns false.
C12_CapturableSingleCheckIsNoCheckmate ==
    (/\ lastCall.op = "is_checkmate"
     /\ \E k \in DefendedKings(lastCall.current_player) :
            /\ Cardinality(ThreatsOn(k, lastCall.current_player)) = 1
            /\ \E t \in ThreatsOn(k, lastCall.current_player) :
                   ThreatsOn(t, Opp(lastCall.current_player)) # {})
        => (lastCall.res.kind = "return" /\ lastCall.res.val = << FALSE >>)

-----------------------------------------------------------------------------
(* perform_move from the point where is_valid_move has returned True: the branch *)
(* of lines 143-166 of boards/board.py, on the moves that pass the guards, have  *)
(* a pathing and an unblocked walk.  In the program is_valid_move raises on      *)
(* these moves (C9), so the branch is entered here by its condition.             *)

\* The moves made in a game are bounded.
MaxMoves == 3

\* The call c passes the guards of perform_move and its move has a pathing whose
\* walk is not blocked.
Validated(c) == FailingGuards(c) = {} /\ ~MoveIllegal(c)

PerformValidatedMove ==
    /\ lastCall = NoCall
    /\ \E current_player \in Player, initial_position \in Cells, final_position \in Cells,
          promote_requested \in BOOLEAN :
          /\ Validated(Call("perform_move", current_player, None, initial_position,
                            final_position, promote_requested, NoBaseline, NoStep,
                            Ret(<< >>)))
          /\ board' = MoveAfterValid(current_player, initial_position, final_position,
                                     Ret(<< TRUE >>)).board
          /\ captured_pieces' = MoveAfterValid(current_player, initial_position,
                                               final_position, Ret(<< TRUE >>)).captured_pieces
          /\ player' = MoveAfterValid(current_player, initial_position, final_position,
                                      Ret(<< TRUE >>)).player
          /\ is_promoted' = MoveAfterValid(current_player, initial_position, final_position,
                                           Ret(<< TRUE >>)).is_promoted
          /\ next_action' = MoveAfterValid(current_player, initial_position, final_position,
                                           Ret(<< TRUE >>)).next_action
          /\ winner' = MoveAfterValid(current_player, initial_position, final_position,
                                      Ret(<< TRUE >>)).winner
          /\ lastCall' = Call("perform_move", current_player, None, initial_position,
                              final_position, promote_requested, NoBaseline, NoStep,
                              Ret(<< >>))
    /\ probes < MaxMoves
    /\ probes' = probes + 1
    /\ UNCHANGED <<black, stack>>

\* perform_move as the program runs it, called with cells of the grid.
PerformMoveOnGrid ==
    /\ lastCall = NoCall
    /\ \E current_player \in Player, initial_position \in Cells, final_position \in Cells,
          promote_requested \in BOOLEAN :
          Does(Call("perform_move", current_player, None, initial_position,
                    final_position, promote_requested, NoBaseline, NoStep, Ret(<< >>)),
               perform_move(current_player, initial_position, final_position,
                            promote_requested))

NextApply == PerformValidatedMove \/ PerformMoveOnGrid \/ Promote \/ Resume

SpecApply == Init /\ [][NextApply]_vars

\* The promotion zone of a side: the three ranks farthest from its own camp.
InZone(side, x) ==
    IF side = black THEN 0 <= x /\ x <= 2 ELSE Dim - 3 <= x /\ x <= Dim - 1

\* C13: perform_move with promotion requested on a promotable piece is rejected
\* with NotInPromotionZone if and only if neither the origin nor the destination
\* lies in the acting side's zone: ranks 0..2 for the first mover, ranks
\* dim-3..dim-1 for the second mover.
C13_RejectedIffNoEndpointInZone ==
    [][ (/\ Calls({"perform_move"})
         /\ lastCall'.promote
         /\ \A g \in 1 .. 7 : ~MoveGuardFails(g, lastCall'))
        => ((lastCall'.res.kind = "raise" /\ lastCall'.res.err = "NotInPromotionZoneError")
            <=> (/\ ~InZone(lastCall'.current_player, lastCall'.initial_position[1])
                 /\ ~InZone(lastCall'.current_player, lastCall'.final_position[1]))) ]_vars

\* C14: after a perform_move call with promote=True that succeeds, the moved piece
\* is promoted: its flag is set and its active move list is the promoted list.
C14_RequestedPromotionPromotes ==
    [][ (Calls({"perform_move"}) /\ Succeeds /\ lastCall'.promote) =>
            /\ is_promoted'[board[lastCall'.initial_position]]
            /\ MovesInUse(is_promoted', board[lastCall'.initial_position])
                   = promoted_moves(board[lastCall'.initial_position]) ]_vars

\* C15: a captured piece has its promotion flag cleared when it is captured: after
\* a perform_move that succeeds on an occupied destination, the piece that stood
\* there is in the pool of the mover, unpromoted.
C15_CaptureClearsPromotion ==
    [][ (/\ Calls({"perform_move"})
         /\ Succeeds
         /\ board[lastCall'.final_position] # None)
        => /\ InPool(captured_pieces'[lastCall'.current_player],
                     board[lastCall'.final_position])
           /\ ~is_promoted'[board[lastCall'.final_position]] ]_vars

\* The baseline b, shifted one step from the position, lands off the board: one of
\* the two coordinates is outside 0 .. Dim-1.
LandsOff(b, pov, position) ==
    ~InBounds(<< position[1] + b.x_per_step * pov, position[2] + b.y_per_step * pov >>)

\* The piece id would be immobile on the position: every active baseline lands off
\* the board.
Immobile(id, position) ==
    \A i \in 1 .. Len(moves_in_use(id)) :
        LandsOff(moves_in_use(id)[i], pov_coefficient(player, black, id), position)

\* C16: after any perform_move that succeeds, the moved piece is not left immobile
\* in unpromoted form: if every active baseline, shifted one step from the
\* destination, lands off the board, the piece has been promoted by the move (and
\* a piece that cannot promote does not make such a move successfully).
C16_MovedPieceNotLeftImmobile ==
    [][ (/\ Calls({"perform_move"})
         /\ Succeeds
         /\ Immobile(board[lastCall'.initial_position], lastCall'.final_position))
        => is_promoted'[board[lastCall'.initial_position]] ]_vars

-----------------------------------------------------------------------------
(* Drops of captured pieces: is_valid_drop and perform_drop on the pieces of the *)
(* pools, which fill by the captures of the moves above.                         *)

\* The pieces of the pool of the side p.
Pool(p) == {captured_pieces[p][i] : i \in 1 .. Len(captured_pieces[p])}

IsValidDropOfCaptured ==
    /\ lastCall = NoCall
    /\ \E p \in Player, drop_position \in Cells :
       \E id \in Pool(p) :
          /\ board[drop_position] = None
          /\ DropCheck(Call("is_valid_drop", p, id, <<0, 0>>, drop_position,
                            FALSE, NoBaseline, NoStep, Ret(<< >>)),
                       is_valid_drop(board, player, is_promoted, black, id, drop_position))

PerformDropOfCaptured ==
    /\ lastCall = NoCall
    /\ \E current_player \in Player, position \in Cells :
       \E id \in Pool(current_player) :
          Does(Call("perform_drop", current_player, id, <<0, 0>>, position, FALSE,
                    NoBaseline, NoStep, Ret(<< >>)),
               perform_drop(id, current_player, position))

NextPool ==
    \/ PerformValidatedMove
    \/ IsValidDropOfCaptured
    \/ PerformDropOfCaptured
    \/ Resume

SpecPool == Init /\ [][NextPool]_vars

DropOps == {"is_valid_drop", "perform_drop"}

\* The call c is a drop that reaches the drop rules: an is_valid_drop call, or a
\* perform_drop call that passes the guards.
ReachesDropRules(c) ==
    c.op = "is_valid_drop" \/ (c.op = "perform_drop" /\ FailingGuards(c) = {})

\* The is_valid_drop call c has failed with the drop error of the rule.
RuleError(c, rule) ==
    c.res.kind = "raise" /\ c.res.err = "InvalidDropError" /\ c.res.val = << rule >>

\* C17: immobility rule: is_valid_drop fails with the immobility drop error, and
\* perform_drop forfeits, exactly when every active baseline of the dropped piece,
\* shifted one step from the drop cell, lands off the board (one of the two
\* coordinates outside 0..dim-1), as for a forward-only pawn on its last rank.
C17_ImmobileDropIsRejected ==
    [][ (Calls(DropOps) /\ ReachesDropRules(lastCall')) =>
            IF lastCall'.op = "is_valid_drop"
            THEN RuleError(lastCall', "piece not being stuck after drop")
                     <=> Immobile(lastCall'.piece, lastCall'.final_position)
            ELSE Immobile(lastCall'.piece, lastCall'.final_position)
                     => (/\ lastCall'.res.kind = "return"
                         /\ winner' = Opp(lastCall'.current_player)) ]_vars

\* An unpromoted pawn of the side of the pawn id stands in the column of the position.
SecondPawn(id, position) ==
    /\ TypeOf(id) = "PawnPiece"
    /\ \E x \in 0 .. (Dim - 1) :
          /\ board[<<x, position[2]>>] # None
          /\ TypeOf(board[<<x, position[2]>>]) = "PawnPiece"
          /\ ~is_promoted[board[<<x, position[2]>>]]
          /\ player[board[<<x, position[2]>>]] = player[id]

\* C18: overcrowding rule: a pawn drop (that the immobility rule lets through) is
\* rejected with the nifu error if and only if an unpromoted pawn of the same side
\* already stands in the drop column; a promoted pawn of that side or a pawn of the
\* other side does not count, and no other piece is rejected by this rule.
C18_SecondPawnInColumnIsRejected ==
    [][ (/\ Calls(DropOps) /\ ReachesDropRules(lastCall')
         /\ ~Immobile(lastCall'.piece, lastCall'.final_position)) =>
            IF lastCall'.op = "is_valid_drop"
            THEN RuleError(lastCall', "nifu")
                     <=> SecondPawn(lastCall'.piece, lastCall'.final_position)
            ELSE SecondPawn(lastCall'.piece, lastCall'.final_position)
                     => (/\ lastCall'.res.kind = "return"
                         /\ winner' = Opp(lastCall'.current_player)) ]_vars

\* is_checkmate holds with the piece id placed on the position, its side checking.
MateWith(id, position) ==
    is_checkmate([board EXCEPT ![position] = id], player, is_promoted, black,
                 captured_pieces[Opp(player[id])], player[id]) = Ret(<< TRUE >>)

\* The drop of the call c is a smothering pawn drop.
Smothers(c) ==
    TypeOf(c.piece) = "PawnPiece" /\ MateWith(c.piece, c.final_position)

\* C19: smothering rule: a pawn drop that passes the immobility and overcrowding
\* rules is rejected with the smothering error (perform_drop forfeits) if and only
\* if is_checkmate holds with the pawn placed and its side checking, and is
\* accepted otherwise; a drop of another piece that passes them is accepted.
C19_SmotheringPawnDropIsRejected ==
    [][ (/\ Calls(DropOps) /\ ReachesDropRules(lastCall')
         /\ ~Immobile(lastCall'.piece, lastCall'.final_position)
         /\ ~SecondPawn(lastCall'.piece, lastCall'.final_position)) =>
            IF lastCall'.op = "is_valid_drop"
            THEN IF Smothers(lastCall')
                 THEN RuleError(lastCall', "post-pawn-drop checkmate")
                 ELSE lastCall'.res.kind = "return" /\ lastCall'.res.val = << TRUE >>
            ELSE /\ lastCall'.res.kind = "return"
                 /\ IF Smothers(lastCall')
                    THEN winner' = Opp(lastCall'.current_player)
                    ELSE /\ winner' = winner
                         /\ board'[lastCall'.final_position] = lastCall'.piece ]_vars

-----------------------------------------------------------------------------
(* The calls step by step: the stack of the functions in progress.  A frame is  *)
(* a function of boards/board.py or boards/util.py that has been entered, with *)
(* the grid it was given and the number of calls it has made and got back.     *)
(* is_valid_pathing, check_for_stuck_piece and check_for_nifu make no call and *)
(* run inside the step of their caller: each is one loop over the move list of *)
(* a piece or over a column.                                                   *)

Frame(call, grid) == [call |-> call, grid |-> grid, made |-> 0]

\* A call entered by a function in progress: the callee with its arguments.
Nested(op, pl, id, ip, fp, bl, st) == Call(op, pl, id, ip, fp, FALSE, bl, st, Ret(<< >>))

\* is_valid_move calls is_blocked when is_valid_pathing has found a pathing.
MoveCallees(c, grid, pathing) ==
    IF pathing = NoPathing THEN << >>
    ELSE << Frame(Nested("is_blocked", c.current_player, c.piece, c.initial_position,
                         c.initial_position, pathing[1], pathing[2]), grid) >>

\* is_valid_drop reaches its call of check_for_uchifuzume when the calls of
\* check_for_stuck_piece and check_for_nifu bind and answer False, and the call binds.
ReachesProbe(c, grid) ==
    /\ Binds(ValidDropStuckCall, CheckForStuckPieceParams)
    /\ ~check_for_stuck_piece(player, is_promoted, black, c.piece, c.final_position)
    /\ Binds(ValidDropNifuCall, CheckForNifuParams)
    /\ ~(/\ check_for_nifu(grid, player, is_promoted, c.piece, c.final_position)
         /\ TypeOf(c.piece) = "PawnPiece")
    /\ Binds(ValidDropUchifuzumeCall, CheckForUchifuzumeParams)

\* The cells, as indices of the scan, at which the loop of get_threatening_list
\* calls is_blocked: the piece on the cell is of the threatening player, the call
\* of is_valid_pathing binds and finds a pathing, and no earlier cell has raised.
BlockedCallCells(c, grid) ==
    {k \in 1 .. Dim * Dim :
        /\ grid[ScanCell(k)] # None
        /\ player[grid[ScanCell(k)]] = c.current_player
        /\ Binds(ThreateningListPathingCall, IsValidPathingParams)
        /\ is_valid_pathing(player, is_promoted, black, grid[ScanCell(k)], ScanCell(k),
                            c.final_position) # NoPathing
        /\ \A j \in 1 .. (k - 1) :
               ScanStep(grid, player, is_promoted, black, c.final_position,
                        c.current_player, ScanCell(j)).kind # "raise"}

BlockedCallAt(c, grid, k, pathing) ==
    Frame(Nested("is_blocked", c.current_player, grid[ScanCell(k)], ScanCell(k),
                 ScanCell(k), pathing[1], pathing[2]), grid)

ScanCallees(c, grid, cells) ==
    [i \in 1 .. Cardinality(cells) |->
        BlockedCallAt(c, grid, Nth(cells, i),
                      is_valid_pathing(player, is_promoted, black,
                                       grid[ScanCell(Nth(cells, i))],
                                       ScanCell(Nth(cells, i)), c.final_position))]

\* The calls that the function of the frame f makes, in order, to the functions
\* that are frames: a call is made when the statements before it let control reach
\* it and its keywords fit the callee's parameters (a call that does not bind
\* raises TypeError in the caller and enters nothing).
Callees(f) ==
    CASE f.call.op = "perform_move" ->
             IF FailingGuards(f.call) = {}
             THEN << Frame(Nested("is_valid_move", f.call.current_player,
                                  f.grid[f.call.initial_position], f.call.initial_position,
                                  f.call.final_position, NoBaseline, NoStep), f.grid) >>
             ELSE << >>
      [] f.call.op = "is_valid_move" ->
             MoveCallees(f.call, f.grid,
                         is_valid_pathing(player, is_promoted, black, f.call.piece,
                                          f.call.initial_position, f.call.final_position))
      \* is_blocked calls is_valid_pathing only
      [] f.call.op = "is_blocked" -> << >>
      [] f.call.op = "perform_drop" ->
             IF FailingGuards(f.call) = {} /\ Binds(PerformDropValidDropCall, IsValidDropParams)
             THEN << Frame(Nested("is_valid_drop", f.call.current_player, f.call.piece,
                                  <<0, 0>>, f.call.final_position, NoBaseline, NoStep),
                           f.grid) >>
             ELSE << >>
      [] f.call.op = "is_valid_drop" ->
             IF ReachesProbe(f.call, f.grid)
             THEN << Frame(Nested("check_for_uchifuzume", f.call.current_player,
                                  f.call.piece, <<0, 0>>, f.call.final_position,
                                  NoBaseline, NoStep),
                           f.grid) >>
             ELSE << >>
      \* the piece is on the grid when is_checkmate is called
      [] f.call.op = "check_for_uchifuzume" ->
             IF Binds(UchifuzumeCheckmateCall, IsCheckmateParams)
             THEN << Frame(Nested("is_checkmate", player[f.call.piece], None, <<0, 0>>,
                                  <<0, 0>>, NoBaseline, NoStep),
                           [f.grid EXCEPT ![f.call.final_position] = f.call.piece]) >>
             ELSE << >>
      \* the unpacking of what get_checking_list returns raises (Unpack): the calls
      \* of is_blocked, get_threatening_list and is_valid_drop below it are not made
      [] f.call.op = "is_checkmate" ->
             << Frame(Nested("get_checking_list", f.call.current_player, None, <<0, 0>>,
                             <<0, 0>>, NoBaseline, NoStep), f.grid) >>
      [] f.call.op = "get_checking_list" ->
             << Frame(Nested("get_threatening_list", f.call.current_player, None, <<0, 0>>,
                             KingPosition(KingCells(f.grid, player, f.call.current_player)),
                             NoBaseline, NoStep), f.grid) >>
      [] f.call.op = "get_threatening_list" ->
             ScanCallees(f.call, f.grid, BlockedCallCells(f.call, f.grid))

\* The function of the frame has got back every call it makes: it returns or raises.
Done(f) == f.made = Len(Callees(f))

\* The calls of the four operations, as a caller makes them on the game.
TopCalls ==
    {Call("perform_move", p, None, ip, fp, pr, NoBaseline, NoStep, Ret(<< >>)) :
        p \in Player, ip \in Cells, fp \in Cells, pr \in BOOLEAN}
    \cup {Call("perform_drop", p, id, <<0, 0>>, fp, FALSE, NoBaseline, NoStep, Ret(<< >>)) :
        p \in Player, id \in PieceIds, fp \in Cells}
    \cup {Call("is_valid_drop", player[id], id, <<0, 0>>, fp, FALSE, NoBaseline, NoStep,
               Ret(<< >>)) : id \in PieceIds, fp \in Cells}
    \cup {Call("is_checkmate", p, None, <<0, 0>>, <<0, 0>>, FALSE, NoBaseline, NoStep,
               Ret(<< >>)) : p \in Player}

\* A caller calls one of the four operations.
Enter ==
    /\ lastCall = NoCall
    /\ stack = << >>
    /\ \E call \in TopCalls : stack' = << Frame(call, board) >>
    /\ UNCHANGED <<board, captured_pieces, player, is_promoted, black, next_action,
                   winner, lastCall, probes>>

\* The function on top of the stack makes its next call.
Descend ==
    /\ stack # << >>
    /\ ~Done(stack[Len(stack)])
    /\ stack' = Append(stack, Callees(stack[Len(stack)])[stack[Len(stack)].made + 1])
    /\ UNCHANGED <<board, captured_pieces, player, is_promoted, black, next_action,
                   winner, lastCall, probes>>

\* Ascend with a fault: the caller does not advance past the call it has got back,
\* and makes it again.
AscendRepeating ==
    /\ Len(stack) > 1
    /\ Done(stack[Len(stack)])
    /\ stack' = SubSeq(stack, 1, Len(stack) - 1)
    /\ UNCHANGED <<board, captured_pieces, player, is_promoted, black, next_action,
                   winner, lastCall, probes>>

\* The function on top of the stack returns or raises to the function that called it.
Ascend ==
    /\ Len(stack) > 1
    /\ Done(stack[Len(stack)])
    /\ stack' = [SubSeq(stack, 1, Len(stack) - 1) EXCEPT ![Len(stack) - 1].made = @ + 1]
    /\ UNCHANGED <<board, captured_pieces, player, is_promoted, black, next_action,
                   winner, lastCall, probes>>

\* The operation returns or raises to its caller, with its outcome.
Finish ==
    /\ Len(stack) = 1
    /\ Done(stack[1])
    /\ \/ /\ stack[1].call.op = "perform_move"
          /\ Does(stack[1].call,
                  perform_move(stack[1].call.current_player, stack[1].call.initial_position,
                               stack[1].call.final_position, stack[1].call.promote))
       \/ /\ stack[1].call.op = "perform_drop"
          /\ Does(stack[1].call,
                  perform_drop(stack[1].call.piece, stack[1].call.current_player,
                               stack[1].call.final_position))
       \/ /\ stack[1].call.op = "is_valid_drop"
          /\ DropCheck(stack[1].call,
                       is_valid_drop(board, player, is_promoted, black, stack[1].call.piece,
                                     stack[1].call.final_position))
       \/ /\ stack[1].call.op = "is_checkmate"
          /\ Utility(stack[1].call,
                     is_checkmate(board, player, is_promoted, black,
                                  captured_pieces[Opp(stack[1].call.current_player)],
                                  stack[1].call.current_player),
                     board)

NextCalls == Enter \/ Descend \/ Ascend \/ Finish \/ Resume

\* The step of Finish as the stack shows it: the operation leaves the stack.
Leave == Len(stack) = 1 /\ Done(stack[1]) /\ stack' = << >>

\* The interpreter keeps running the function on top of the stack: it makes the
\* next call of the function, or returns from it.
SpecCalls ==
    /\ Init
    /\ [][NextCalls]_vars
    /\ WF_stack(Descend)
    /\ WF_stack(Ascend)
    /\ WF_stack(Leave)

\* The number of evaluations of is_checkmate in progress.
CheckmateDepth ==
    Cardinality({i \in 1 .. Len(stack) : stack[i].call.op = "is_checkmate"})

\* C20: every call of is_checkmate, is_valid_drop, perform_move and perform_drop
\* terminates: the stack of a call in progress empties; and the recursion
\* is_checkmate -> is_valid_drop -> check_for_uchifuzume -> is_checkmate bottoms
\* out: no evaluation of is_checkmate is ever nested in another one.
C20_EveryCallTerminates ==
    /\ [](CheckmateDepth <= 1)
    /\ (stack # << >>) ~> (stack = << >>)

\* A checkmate evaluation is three functions deep: is_checkmate has called
\* get_checking_list, which has called get_threatening_list.
C20_NestedEvaluation ==
    /\ Len(stack) = 3
    /\ stack[1].call.op = "is_checkmate"
    /\ stack[3].call.op = "get_threatening_list"
    /\ Done(stack[3])

-----------------------------------------------------------------------------
(* Further properties of the game as the program plays it *)

\* The side p has a king of its own on the grid.
HasKing(p) ==
    \E c \in Cells :
        board[c] # None /\ TypeOf(board[c]) = "KingPiece" /\ player[board[c]] = p

OccupiedBetween(c) ==
    /\ Len(ResolvedPathing(c)) = 2
    /\ \E sub_step \in 1 .. (ResolvedPathing(c)[2].n \div ResolvedPathing(c)[2].d) - 1 :
           board[ShiftedPosition(c.initial_position, ResolvedPathing(c)[1],
                                 IntStep(sub_step),
                                 pov_coefficient(player, black, board[c.initial_position]))]
               # None

\* C22: a perform_move whose resolved path has an occupied cell strictly between
\* origin and destination, or for which no baseline resolves, is never applied: no
\* cell and no pool changes, and the mover forfeits (the call returns, the opponent
\* of the mover wins and the turn is kept).
C22_BlockedOrUnresolvedMoveForfeits ==
    [][ (/\ Calls({"perform_move"})
         /\ FailingGuards(lastCall') = {}
         /\ (Len(ResolvedPathing(lastCall')) = 0 \/ OccupiedBetween(lastCall')))
        => /\ board' = board
           /\ captured_pieces' = captured_pieces
           /\ lastCall'.res.kind = "return"
           /\ winner' = Opp(lastCall'.current_player)
           /\ next_action' = next_action ]_vars

\* The destination of the is_blocked call c: its origin shifted by its step count
\* along its baseline, under the point of view of its piece.
Destination(c) ==
    ShiftedPosition(c.initial_position, c.baseline, c.step,
                    pov_coefficient(player, black, c.piece))

\* is_valid_pathing from the origin of the is_blocked call c to its destination
\* returns the baseline and the step count of the call.
Reproduced(c) ==
    /\ Len(is_valid_pathing(player, is_promoted, black, c.piece, c.initial_position,
                            Destination(c))) = 2
    /\ is_valid_pathing(player, is_promoted, black, c.piece, c.initial_position,
                        Destination(c))[1] = c.baseline
    /\ SameStep(is_valid_pathing(player, is_promoted, black, c.piece, c.initial_position,
                                 Destination(c))[2], c.step)

\* C25: is_blocked fails with OutOfBounds when the destination computed from
\* origin, baseline, steps and point of view is off the board; it fails with
\* NoPathing when is_valid_pathing from the origin to that destination does not
\* return the same (baseline, steps) pair; for a pair that is_valid_pathing returns
\* for an in-bounds destination it fails with neither and returns a boolean.
C25_BlockedPreconditions ==
    lastCall.op = "is_blocked" =>
        IF ~InBounds(Destination(lastCall))
        THEN lastCall.res.kind = "raise" /\ lastCall.res.err = "OutOfBoundError"
        ELSE IF ~Reproduced(lastCall)
        THEN lastCall.res.kind = "raise" /\ lastCall.res.err = "NoPathingFoundError"
        ELSE lastCall.res.kind = "return" /\ lastCall.res.val \in {<< TRUE >>, << FALSE >>}

\* C27: whenever a winner is set, the winner is the opponent of the side to
\* move: the action that ends the game by forfeiture never flips the turn.
C27_WinnerIsOpponentOfSideToMove ==
    winner # NoPlayer => winner = Opp(next_action)

\* A call of perform_move or perform_drop has just ended the game by forfeiture.
C27_Forfeited ==
    /\ lastCall.op \in BoardOps
    /\ lastCall.res.kind = "return"
    /\ winner = Opp(lastCall.current_player)
    /\ next_action = lastCall.current_player

-----------------------------------------------------------------------------
(* A game of validated moves, with is_checkmate asked between the moves: the   *)
(* positions a game reaches once is_valid_move answers True for the moves that *)
(* have a pathing and an unblocked walk (in the program it raises, C9).        *)

NextGame == PerformValidatedMove \/ IsCheckmate \/ Resume

SpecGame == Init /\ [][NextGame]_vars

\* The cells whose content differs between the grid before and after a step.
ChangedCells == {c \in Cells : board'[c] # board[c]}

\* C26: a successful perform_move changes exactly two cells, the origin (to
\* empty) and the destination (to the mover).  If the destination was empty the
\* pools are unchanged and no promotion flag changes unless promotion was
\* requested or forced; if it held an opposing piece, the mover's pool gains
\* exactly that piece, with its side tag set to the mover, and the opponent's
\* pool is unchanged.
C26_SuccessfulMoveEffect ==
    [][ (Calls({"perform_move"}) /\ next_action' # next_action) =>
          /\ ChangedCells = {lastCall'.initial_position, lastCall'.final_position}
          /\ board'[lastCall'.initial_position] = None
          /\ board'[lastCall'.final_position] = board[lastCall'.initial_position]
          /\ captured_pieces'[Opp(lastCall'.current_player)]
                 = captured_pieces[Opp(lastCall'.current_player)]
          /\ IF board[lastCall'.final_position] = None
             THEN /\ captured_pieces' = captured_pieces
                  /\ player' = player
                  /\ (is_promoted' # is_promoted =>
                        \/ lastCall'.promote
                        \/ Immobile(board[lastCall'.initial_position],
                                    lastCall'.final_position))
             ELSE /\ player[board[lastCall'.final_position]] = Opp(lastCall'.current_player)
                  /\ captured_pieces'[lastCall'.current_player]
                         = Append(captured_pieces[lastCall'.current_player],
                                  board[lastCall'.final_position])
                  /\ player' = [player EXCEPT ![board[lastCall'.final_position]]
                                                  = lastCall'.current_player] ]_vars

\* A move has just captured a piece of the other side: the piece is the last of the
\* mover's pool, under the mover's side tag, and the mover stands on its cell.
C26_Captured ==
    /\ lastCall.op = "perform_move"
    /\ next_action = Opp(lastCall.current_player)
    /\ board[lastCall.initial_position] = None
    /\ board[lastCall.final_position] # None
    /\ Len(captured_pieces[lastCall.current_player]) > 0
    /\ player[captured_pieces[lastCall.current_player]
                  [Len(captured_pieces[lastCall.current_player])]] = lastCall.current_player

\* is_checkmate has returned a boolean.
Answered(c) == c.res.kind = "return" /\ c.res.val \in {<< TRUE >>, << FALSE >>}

\* is_checkmate has returned false.
AnsweredFalse(c) == c.res.kind = "return" /\ c.res.val = << FALSE >>

\* The cells strictly between the cell t of a piece and the cell k it reaches,
\* along the pathing from t to k.
Between(t, k) ==
    IF Len(is_valid_pathing(player, is_promoted, black, board[t], t, k)) # 2 THEN {}
    ELSE {ShiftedPosition(t, is_valid_pathing(player, is_promoted, black, board[t], t, k)[1],
                          IntStep(sub_step), pov_coefficient(player, black, board[t])) :
             sub_step \in 1 .. (is_valid_pathing(player, is_promoted, black, board[t], t, k)[2].n
                                  \div is_valid_pathing(player, is_promoted, black, board[t],
                                                        t, k)[2].d) - 1}

\* The drop of the pooled piece id on the cell c breaks the immobility rule or the
\* overcrowding rule.
BreaksDropRule(id, c) == Immobile(id, c) \/ SecondPawn(id, c)

\* A piece of the pool of `side` can be dropped on the empty cell c.
DropBlocks(c, side) ==
    board[c] = None /\ \E id \in Pool(side) : ~BreaksDropRule(id, c)

\* The king on k is checked by exactly one piece of the attacker, from a distance:
\* the cells strictly between the two.
SingleCheckGap(k, attacker) ==
    IF Cardinality(ThreatsOn(k, attacker)) # 1 THEN {}
    ELSE Between(CHOOSE t \in ThreatsOn(k, attacker) : TRUE, k)

\* C23: interception: if the king is checked by exactly one piece and some cell
\* strictly between the checker and the king is threatened by a piece of the
\* defender or takes a legal drop from the defender's pool, is_checkmate
\* returns false.
C23_InterceptionIsNoCheckmate ==
    (/\ lastCall.op = "is_checkmate"
     /\ \E k \in DefendedKings(lastCall.current_player) :
            \E c \in SingleCheckGap(k, lastCall.current_player) :
                \/ ThreatsOn(c, Opp(lastCall.current_player)) # {}
                \/ DropBlocks(c, Opp(lastCall.current_player)))
        => AnsweredFalse(lastCall)

\* The cells one step from the king on k along the king's baselines that are on
\* the board.
KingSteps(k) ==
    {c \in Cells : \E i \in 1 .. Len(moves_in_use(board[k])) :
        c = ShiftedPosition(k, moves_in_use(board[k])[i], IntStep(1),
                            pov_coefficient(player, black, board[k]))}

\* C24: the flight test of is_checkmate: if the king is in check and one step
\* along some baseline of the king leads to a cell of the board that is empty or
\* held by a piece of the other side, is_checkmate returns false, whether or not
\* that cell is attacked.
C24_FlightCellIsNoCheckmate ==
    (/\ lastCall.op = "is_checkmate"
     /\ \E k \in DefendedKings(lastCall.current_player) :
            /\ ThreatsOn(k, lastCall.current_player) # {}
            /\ \E c \in KingSteps(k) :
                   board[c] = None \/ player[board[c]] = lastCall.current_player)
        => AnsweredFalse(lastCall)

\* The king on k stands on the border: a step along one of its baselines leaves
\* the board.
OnBorder(k) ==
    \E i \in 1 .. Len(moves_in_use(board[k])) :
        LandsOff(moves_in_use(board[k])[i], pov_coefficient(player, black, board[k]), k)

\* C28: for a checked king on the border or in a corner is_checkmate returns a
\* boolean: a step of the king that leaves the board is no flight square, and
\* the call does not fail with OutOfBounds.
C28_BorderKingIsAnswered ==
    (/\ lastCall.op = "is_checkmate"
     /\ \E k \in DefendedKings(lastCall.current_player) :
            ThreatsOn(k, lastCall.current_player) # {} /\ OnBorder(k))
        => Answered(lastCall)

\* C29: with a single checker at a distance and pieces in the defender's pool,
\* is_checkmate takes a pooled piece whose drop on a cell between the two breaks
\* a drop rule as unable to block and goes on: whatever the pool holds and in
\* whatever order, the call returns a boolean and raises no drop error.
C29_PoolIsTriedWithoutError ==
    (/\ lastCall.op = "is_checkmate"
     /\ Pool(Opp(lastCall.current_player)) # {}
     /\ \E k \in DefendedKings(lastCall.current_player) :
            SingleCheckGap(k, lastCall.current_player) # {})
        => (Answered(lastCall) /\ lastCall.res.err # "InvalidDropError")

-----------------------------------------------------------------------------
(* ShogiGeneticAlgorithmBotV1.possible_actions: models/genalgo/v1.py *)

\* The point of view the bot applies to the baselines of its pieces.
bot_pov_coefficient(bot_side) == IF bot_side = black THEN -1 ELSE 1

\* (targ_x, targ_y): the target the bot computes for `step` steps of the baseline
\* from the cell c.
Target(bot_side, c, baseline, step) ==
    ShiftedPosition(c, baseline, IntStep(step), bot_pov_coefficient(bot_side))

\* The k-th cell of the scan is in occupied_cells: it holds a piece of the bot.
Occupied(bot_side, k) ==
    board[ScanCell(k)] # None /\ player[board[ScanCell(k)]] = bot_side

RECURSIVE MovesFrom(_, _, _)

\* The loop over a baseline after is_blocked has returned or raised for its first
\* step: an exception leaves possible_actions; True breaks to the next baseline;
\* False has the move valued on the grid, which is restored, appended to the
\* actions, and then MovementUtils.involving_promotion_zone is called, which
\* boards/util.py does not define.
MovesAfterBlocked(bot_side, k, i, blocked) ==
    IF blocked.kind = "raise" THEN blocked
    ELSE IF blocked.val = << TRUE >> THEN MovesFrom(bot_side, k, i + 1)
    ELSE Raise("AttributeError")

\* The loops over occupied_cells and over the baselines of the piece, from the
\* i-th baseline of the piece on the k-th cell of the scan.  A target off the
\* board breaks to the next baseline.  After the last cell the loop over the
\* empty cells tries the pool of the bot: is_valid_drop is called with the
\* keyword opponent_captured_pieces, which it does not take, and the TypeError is
\* caught, so the actions come back as the moves left them: empty.
MovesFrom(bot_side, k, i) ==
    IF k > Dim * Dim THEN Ret(<< >>)
    ELSE IF ~Occupied(bot_side, k) THEN MovesFrom(bot_side, k + 1, 1)
    ELSE IF i > Len(moves_in_use(board[ScanCell(k)])) THEN MovesFrom(bot_side, k + 1, 1)
    ELSE IF ~InBounds(Target(bot_side, ScanCell(k), moves_in_use(board[ScanCell(k)])[i], 1))
         THEN MovesFrom(bot_side, k, i + 1)
    ELSE MovesAfterBlocked(bot_side, k, i,
             is_blocked(board, player, is_promoted, black, board[ScanCell(k)], ScanCell(k),
                        moves_in_use(board[ScanCell(k)])[i], IntStep(1)))

possible_actions(bot_side) == MovesFrom(bot_side, 1, 1)

\* The baselines of the piece on the k-th cell whose first step the bot finds on the board.
OnBoardSteps(bot_side, k) ==
    {i \in 1 .. Len(moves_in_use(board[ScanCell(k)])) :
        InBounds(Target(bot_side, ScanCell(k), moves_in_use(board[ScanCell(k)])[i], 1))}

\* The cells of the scan from which the bot examines a move.
MovingCells(bot_side) ==
    {k \in 1 .. Dim * Dim : Occupied(bot_side, k) /\ OnBoardSteps(bot_side, k) # {}}

\* The record of a call of possible_actions: with the first move the bot examines
\* (piece, origin, target it computed, baseline), if there is one.
BotCall(bot_side, k, res) ==
    IF k = 0
    THEN Call("possible_actions", bot_side, None, <<0, 0>>, <<0, 0>>, FALSE, NoBaseline,
              NoStep, res)
    ELSE Call("possible_actions", bot_side, board[ScanCell(k)], ScanCell(k),
              Target(bot_side, ScanCell(k),
                     moves_in_use(board[ScanCell(k)])[First(OnBoardSteps(bot_side, k))], 1),
              FALSE, moves_in_use(board[ScanCell(k)])[First(OnBoardSteps(bot_side, k))],
              IntStep(1), res)

\* possible_actions restores every cell it writes before it goes on, and raises
\* before it writes when it raises: it leaves the grid as it found it.
PossibleActions ==
    /\ lastCall = NoCall
    /\ \E bot_side \in Player :
          Utility(BotCall(bot_side,
                          IF MovingCells(bot_side) = {} THEN 0
                          ELSE First(MovingCells(bot_side)),
                          Ret(<< >>)),
                  possible_actions(bot_side),
                  board)

NextBot == PossibleActions \/ PerformValidatedMove \/ Resume

SpecBot == Init /\ [][NextBot]_vars

\* C30: possible_actions agrees with the engine: it returns its actions, the
\* destination it computes for a move from an origin along a baseline is the one
\* is_valid_pathing and is_blocked compute for that origin, baseline and piece
\* (the same point-of-view sign), so that is_valid_move accepts the move and
\* perform_move does not forfeit on it; and it leaves the grid and the pools as
\* it found them.
C30_BotAgreesWithEngine ==
    [][ Calls({"possible_actions"}) =>
          /\ lastCall'.res.kind = "return"
          /\ lastCall'.piece # None =>
                 lastCall'.final_position
                     = ShiftedPosition(lastCall'.initial_position, lastCall'.baseline,
                                       lastCall'.step,
                                       pov_coefficient(player, black, lastCall'.piece))
          /\ board' = board
          /\ captured_pieces' = captured_pieces ]_vars

====
